---- MODULE Spec2Model ----
(***************************************************************************)
(* Model of src/app.py: the NIFTY50 condition-based recommender.           *)
(*                                                                         *)
(* Number representation.  The prices yfinance returns (Open, High, Low,   *)
(* Close of the last row) are held in thousandths of the price unit; the   *)
(* values app.py produces with round(x, 2) are held in hundredths.  round  *)
(* is round-half-to-even, as numpy.float64.__round__ computes it (scale by  *)
(* 100, round to the nearest integer with ties to even, scale back); on    *)
(* the decimal prices of the model's price window the binary computation   *)
(* and the decimal one give the same hundredths.                           *)
(*                                                                         *)
(* Optional values.  Python's None is the empty sequence and a present     *)
(* value v is the one-element sequence <<v>>.                              *)
(***************************************************************************)
EXTENDS Integers, Sequences, FiniteSets, TLC

VARIABLES market, pc, i, status_text, progress_bar, results, actionable_df, shown

vars == <<market, pc, i, status_text, progress_bar, results, actionable_df, shown>>

\* Bounds of the model.
NumSymbols == 3
MinPrice == 100
MaxPrice == 300

None == << >>

Some(v) == <<v>>

\* The symbol list; entries are distinct, as in the source list.
NIFTY50_SYMBOLS == [k \in 1..NumSymbols |-> k]

\* round(num/den) to the nearest integer, ties to the even neighbour.
RoundHalfEven(num, den) ==
    LET q == num \div den
        r == num % den
    IN  IF 2 * r < den THEN q
        ELSE IF 2 * r > den THEN q + 1
        ELSE IF q % 2 = 0 THEN q ELSE q + 1

\* round(x, 2) of a raw price x (thousandths), in hundredths.
round2(x) == RoundHalfEven(x, 10)

\* round(price * pct/100, 2) of a rounded price (hundredths), in hundredths.
round2_pct(price, pct) == RoundHalfEven(price * pct, 100)

----------------------------------------------------------------------------
(* What stock.history(period='1d') can do for a symbol.                    *)

\* Differences between two prices of a bar that the wide input set draws:
\* equal, below 0.01, exactly 0.01, above 0.01.
Spreads == {0, 1, 10, 11}

Bar(o, h, l, c) == [Open |-> o, High |-> h, Low |-> l, Close |-> c]

\* Well-formed bars (0 < Low <= Open, Close <= High) over the whole price
\* window, closing at the low, at the open or at the high.
BarsAt(o, up, dn) == { Bar(o, o + up, o - dn, c) : c \in {o - dn, o, o + up} }

BarsFrom(o) ==
    UNION { BarsAt(o, up, dn) : up \in Spreads, dn \in {d \in Spreads : d < o} }

WideBars == UNION { BarsFrom(o) : o \in MinPrice..MaxPrice }

\* A small catalogue of bars at ordinary price levels.
CatalogBars ==
    { Bar(100000, 100000, 95000, 98000),
      Bar(95000, 100000, 95000, 98000),
      Bar(97000, 100000, 95000, 98000),
      Bar(98000, 98000, 98000, 98000) }

\* A last row without its Close column.
MalformedBar == [Open |-> 100000, High |-> 100000, Low |-> 95000]

HistRaise == [kind |-> "raise"]

HistEmpty == [kind |-> "empty"]

HistRows(b) == [kind |-> "rows", last |-> b]

CatalogHists ==
    {HistRaise, HistEmpty, HistRows(MalformedBar)} \cup {HistRows(b) : b \in CatalogBars}

WideHists ==
    {HistRaise, HistEmpty, HistRows(MalformedBar)}
        \cup {HistRows(b) : b \in WideBars}

----------------------------------------------------------------------------
(* get_stock_data, get_tradingview_url, analyze_stock                      *)

get_stock_data(symbol) ==
    LET hist == market[symbol]
    IN  IF hist.kind = "raise" THEN None
        ELSE IF hist.kind = "empty" THEN None
        ELSE Some(hist.last)

HorizontalLine(text, price, color, linestyle, linewidth) ==
    [type |-> "horizontal_line", text |-> text, price |-> price,
     color |-> color, linestyle |-> linestyle, linewidth |-> linewidth]

\* Variant of get_tradingview_url: the current-price line is appended first.
get_tradingview_url_current_first(symbol, current_price, stop_loss, target, recommendation) ==
    LET d0 == <<HorizontalLine("Current", current_price, "#0000FF", 0, 1)>>
        d1 == IF stop_loss # None
              THEN Append(d0, HorizontalLine("SL", stop_loss[1], "#FF0000", 2, 2))
              ELSE d0
        d2 == IF target # None
              THEN Append(d1, HorizontalLine("Target", target[1], "#00FF00", 2, 2))
              ELSE d1
    IN  [symbol |-> symbol, drawings |-> d2]

get_tradingview_url(symbol, current_price, stop_loss, target, recommendation) ==
    LET d0 == << >>
        d1 == IF stop_loss # None
              THEN Append(d0, HorizontalLine("SL", stop_loss[1], "#FF0000", 2, 2))
              ELSE d0
        d2 == IF target # None
              THEN Append(d1, HorizontalLine("Target", target[1], "#00FF00", 2, 2))
              ELSE d1
        drawings == Append(d2, HorizontalLine("Current", current_price, "#0000FF", 0, 1))
    IN  [symbol |-> symbol, drawings |-> drawings]

\* Indexing a price column the row does not have raises KeyError.
Raises(data) == ~({"Open", "High", "Low", "Close"} \subseteq DOMAIN data)

\* Variant of current_price_of: the close is truncated, not rounded.
current_price_truncated(data) == data.Close \div 10

current_price_of(data) == round2(data.Close)

\* Variant of recommendation_of: the displayed (rounded) prices are compared.
recommendation_of_rounded(data) ==
    IF round2(data.Open) = round2(data.High) THEN "Sell"
    ELSE IF round2(data.Open) = round2(data.Low) THEN "Buy"
    ELSE "Neutral"

recommendation_of(data) ==
    IF data.Open = data.High THEN "Sell"
    ELSE IF data.Open = data.Low THEN "Buy"
    ELSE "Neutral"

\* Variant of stop_loss_of: the two percentages are exchanged.
stop_loss_of_swapped(recommendation, current_price) ==
    IF recommendation = "Sell" THEN Some(round2_pct(current_price, 98))
    ELSE IF recommendation = "Buy" THEN Some(round2_pct(current_price, 102))
    ELSE None

stop_loss_of(recommendation, current_price) ==
    IF recommendation = "Sell" THEN Some(round2_pct(current_price, 102))
    ELSE IF recommendation = "Buy" THEN Some(round2_pct(current_price, 98))
    ELSE None

\* Variant of target_of: the Buy branch sets no target.
target_of_sell_only(recommendation, current_price) ==
    IF recommendation = "Sell" THEN Some(round2_pct(current_price, 96))
    ELSE None

target_of(recommendation, current_price) ==
    IF recommendation = "Sell" THEN Some(round2_pct(current_price, 96))
    ELSE IF recommendation = "Buy" THEN Some(round2_pct(current_price, 104))
    ELSE None

\* Variant of condition_of: the Open=Low test comes first.
condition_of_low_first(data) ==
    IF data.Open = data.Low THEN "Open=Low (Bullish)"
    ELSE IF data.Open = data.High THEN "Open=High (Bearish)"
    ELSE "No clear pattern"

condition_of(data) ==
    IF data.Open = data.High THEN "Open=High (Bearish)"
    ELSE IF data.Open = data.Low THEN "Open=Low (Bullish)"
    ELSE "No clear pattern"

\* The dictionary analyze_stock returns for a row that has all its columns.
analyze_stock(symbol, data) ==
    LET current_price == current_price_of(data)
        recommendation == recommendation_of(data)
        stop_loss == stop_loss_of(recommendation, current_price)
        target == target_of(recommendation, current_price)
        tv_url == get_tradingview_url(symbol, current_price, stop_loss, target,
                                      recommendation)
    IN  [Symbol |-> symbol,
         CurrentPrice |-> current_price,
         Open |-> round2(data.Open),
         High |-> round2(data.High),
         Low |-> round2(data.Low),
         Close |-> current_price,
         Recommendation |-> recommendation,
         StopLoss |-> stop_loss,
         Target |-> target,
         Condition |-> condition_of(data),
         TradingViewChart |-> tv_url]

----------------------------------------------------------------------------
(* main                                                                    *)

IsActionable(r) == r.Recommendation \in {"Buy", "Sell"}

\* main keeps no list of failed symbols: a None result is dropped.
failures == << >>

InitRun ==
    /\ pc = "Idle"
    /\ i = 0
    /\ status_text = 0
    /\ progress_bar = 0
    /\ results = << >>
    /\ actionable_df = << >>
    /\ shown = {}

Init ==
    /\ market \in [1..NumSymbols -> CatalogHists]
    /\ InitRun

InitClassify ==
    /\ \E h \in WideHists :
          market = [k \in 1..NumSymbols |-> IF k = 1 THEN h ELSE HistEmpty]
    /\ InitRun

\* The button is pressed: the script runs up to the loop.
ClickAnalyze ==
    /\ pc \in {"Idle", "Completed", "CompletedEmpty", "Error"}
    /\ pc' = "Running"
    /\ i' = 0
    /\ status_text' = 0
    /\ progress_bar' = 0
    /\ results' = << >>
    /\ actionable_df' = << >>
    /\ shown' = {}
    /\ UNCHANGED market

\* Variant of IterateNoData: the None result is appended like any other.
IterateNoData_appended ==
    /\ pc = "Running"
    /\ i < Len(NIFTY50_SYMBOLS)
    /\ get_stock_data(NIFTY50_SYMBOLS[i + 1]) = None
    /\ results' = Append(results, None)
    /\ status_text' = i + 1
    /\ i' = i + 1
    /\ progress_bar' = i + 1
    /\ UNCHANGED <<market, pc, actionable_df, shown>>

\* One loop iteration in which get_stock_data returns None.
IterateNoData ==
    /\ pc = "Running"
    /\ i < Len(NIFTY50_SYMBOLS)
    /\ get_stock_data(NIFTY50_SYMBOLS[i + 1]) = None
    /\ status_text' = i + 1
    /\ i' = i + 1
    /\ progress_bar' = i + 1
    /\ UNCHANGED <<market, pc, results, actionable_df, shown>>

\* Variant of IterateSignal: the result is inserted at the front.
IterateSignal_prepended ==
    /\ pc = "Running"
    /\ i < Len(NIFTY50_SYMBOLS)
    /\ LET symbol == NIFTY50_SYMBOLS[i + 1]
           data == get_stock_data(symbol)
       IN  /\ data # None
           /\ ~Raises(data[1])
           /\ results' = <<analyze_stock(symbol, data[1])>> \o results
    /\ status_text' = i + 1
    /\ i' = i + 1
    /\ progress_bar' = i + 1
    /\ UNCHANGED <<market, pc, actionable_df, shown>>

\* One loop iteration in which analyze_stock returns a dictionary.
IterateSignal ==
    /\ pc = "Running"
    /\ i < Len(NIFTY50_SYMBOLS)
    /\ LET symbol == NIFTY50_SYMBOLS[i + 1]
           data == get_stock_data(symbol)
       IN  /\ data # None
           /\ ~Raises(data[1])
           /\ results' = Append(results, analyze_stock(symbol, data[1]))
    /\ status_text' = i + 1
    /\ i' = i + 1
    /\ progress_bar' = i + 1
    /\ UNCHANGED <<market, pc, actionable_df, shown>>

\* One loop iteration in which analyze_stock raises: the exception leaves
\* the loop and is caught by main's except clause.
IterateRaise ==
    /\ pc = "Running"
    /\ i < Len(NIFTY50_SYMBOLS)
    /\ LET data == get_stock_data(NIFTY50_SYMBOLS[i + 1])
       IN  /\ data # None
           /\ Raises(data[1])
    /\ status_text' = i + 1
    /\ pc' = "Error"
    /\ shown' = shown \cup {"error"}
    /\ UNCHANGED <<market, i, progress_bar, results, actionable_df>>

\* After the loop, with no results.
FinishEmpty ==
    /\ pc = "Running"
    /\ i = Len(NIFTY50_SYMBOLS)
    /\ results = << >>
    /\ shown' = shown \cup {"warning"}
    /\ pc' = "CompletedEmpty"
    /\ UNCHANGED <<market, i, status_text, progress_bar, results, actionable_df>>

\* After the loop, with results: the tables and the actionable section.
FinishReport ==
    /\ pc = "Running"
    /\ i = Len(NIFTY50_SYMBOLS)
    /\ results # << >>
    /\ actionable_df' = SelectSeq(results, IsActionable)
    /\ shown' = shown \cup {"report"}
                  \cup (IF actionable_df' # << >> THEN {"actionable", "download"}
                        ELSE {"info"})
    /\ pc' = "Completed"
    /\ UNCHANGED <<market, i, status_text, progress_bar, results>>

Next ==
    \/ ClickAnalyze
    \/ IterateNoData
    \/ IterateSignal
    \/ IterateRaise
    \/ FinishEmpty
    \/ FinishReport

Spec == Init /\ [][Next]_vars

SpecClassify == InitClassify /\ [][Next]_vars

----------------------------------------------------------------------------
(* Properties                                                              *)

Abs(x) == IF x < 0 THEN 0 - x ELSE x

\* q is num/den rounded to the nearest integer, ties to even.
IsRounded(num, den, q) ==
    /\ 2 * Abs(num - q * den) <= den
    /\ 2 * Abs(num - q * den) = den => q % 2 = 0

\* Two raw prices are equal within 0.01.
WithinTol(a, b) == Abs(a - b) <= 10

Terminal == {"Completed", "CompletedEmpty", "Error"}

Rows == 1..Len(results)

\* The bar a signal was computed from.
BarOf(r) == market[r.Symbol].last

\* Position of a symbol in the universe.
Pos(s) == CHOOSE j \in 1..Len(NIFTY50_SYMBOLS) : NIFTY50_SYMBOLS[j] = s

\* C1: every signal's recommendation is Buy, Sell or Neutral, and Stop Loss
\* is present iff Target is present iff the recommendation is not Neutral.
C1_LevelsIffNotNeutral ==
    \A k \in Rows :
        LET r == results[k]
        IN  /\ r.Recommendation \in {"Buy", "Sell", "Neutral"}
            /\ (r.StopLoss # None) <=> (r.Target # None)
            /\ (r.Target # None) <=> (r.Recommendation # "Neutral")

C1_Witness ==
    \E k \in Rows :
        /\ results[k].Recommendation = "Buy"
        /\ results[k].StopLoss # None
        /\ results[k].Target # None

\* C2 as stated: for every signal, over every close, Sell has
\* stopLoss > currentPrice > target and Buy has stopLoss < currentPrice < target.
C2_StrictOrderEveryClose ==
    \A k \in Rows :
        LET r == results[k]
        IN  /\ r.Recommendation = "Sell" =>
                  r.StopLoss[1] > r.CurrentPrice /\ r.CurrentPrice > r.Target[1]
            /\ r.Recommendation = "Buy" =>
                  r.StopLoss[1] < r.CurrentPrice /\ r.CurrentPrice < r.Target[1]

\* C2 amended: the strict ordering holds for every signal whose current
\* price is at least 0.25.
C2_StrictOrderFromQuarter ==
    \A k \in Rows :
        LET r == results[k]
        IN  r.CurrentPrice >= 25 =>
              /\ r.Recommendation = "Sell" =>
                    r.StopLoss[1] > r.CurrentPrice /\ r.CurrentPrice > r.Target[1]
              /\ r.Recommendation = "Buy" =>
                    r.StopLoss[1] < r.CurrentPrice /\ r.CurrentPrice < r.Target[1]

C2_Witness ==
    \E k \in Rows :
        /\ results[k].CurrentPrice = 25
        /\ results[k].Recommendation = "Buy"
        /\ results[k].StopLoss = <<24>>

\* C3 as stated: Sell whenever |open - high| <= 0.01, Buy whenever that does
\* not hold and |open - low| <= 0.01, Neutral only when open differs from
\* both by more than 0.01.
C3_ToleranceClassification ==
    \A k \in Rows :
        LET r == results[k]
            b == BarOf(r)
        IN  /\ WithinTol(b.Open, b.High) => r.Recommendation = "Sell"
            /\ (~WithinTol(b.Open, b.High) /\ WithinTol(b.Open, b.Low)) =>
                  r.Recommendation = "Buy"
            /\ r.Recommendation = "Neutral" =>
                  ~WithinTol(b.Open, b.High) /\ ~WithinTol(b.Open, b.Low)

\* C3 amended: classification compares the raw prices exactly: Sell iff
\* open = high, Buy iff open # high and open = low, Neutral otherwise.
C3_ExactClassification ==
    \A k \in Rows :
        LET r == results[k]
            b == BarOf(r)
        IN  /\ r.Recommendation = "Sell" <=> b.Open = b.High
            /\ r.Recommendation = "Buy" <=> (b.Open # b.High /\ b.Open = b.Low)
            /\ r.Recommendation = "Neutral" <=> (b.Open # b.High /\ b.Open # b.Low)

C3_Witness ==
    \E k \in Rows :
        LET b == BarOf(results[k])
        IN  /\ b.High - b.Open = 10
            /\ b.Open - b.Low = 1
            /\ results[k].Open = results[k].Low
            /\ results[k].Recommendation = "Neutral"

\* C4: a flat bar (open = high = low) is Sell with the Bearish condition and
\* the Sell-side levels, and Recommendation and Condition always agree.
C4_FirstMatchWins ==
    \A k \in Rows :
        LET r == results[k]
            b == BarOf(r)
        IN  /\ (b.Open = b.High /\ b.Open = b.Low) =>
                  /\ r.Recommendation = "Sell"
                  /\ r.Condition = "Open=High (Bearish)"
                  /\ r.StopLoss # None /\ r.Target # None
                  /\ IsRounded(r.CurrentPrice * 102, 100, r.StopLoss[1])
                  /\ IsRounded(r.CurrentPrice * 96, 100, r.Target[1])
            /\ r.Recommendation = "Sell" <=> r.Condition = "Open=High (Bearish)"
            /\ r.Recommendation = "Buy" <=> r.Condition = "Open=Low (Bullish)"
            /\ r.Recommendation = "Neutral" <=> r.Condition = "No clear pattern"

C4_Witness ==
    \E k \in Rows :
        LET b == BarOf(results[k])
        IN  /\ b.Open = b.High /\ b.Open = b.Low
            /\ results[k].Recommendation = "Sell"

\* C5 as stated: the levels are the unrounded close times the percentage,
\* rounded once, and currentPrice = round(close, 2).
C5_LevelsFromRawClose ==
    \A k \in Rows :
        LET r == results[k]
            b == BarOf(r)
        IN  /\ IsRounded(b.Close, 10, r.CurrentPrice)
            /\ r.Recommendation = "Sell" =>
                  /\ IsRounded(b.Close * 102, 1000, r.StopLoss[1])
                  /\ IsRounded(b.Close * 96, 1000, r.Target[1])
            /\ r.Recommendation = "Buy" =>
                  /\ IsRounded(b.Close * 98, 1000, r.StopLoss[1])
                  /\ IsRounded(b.Close * 104, 1000, r.Target[1])

\* C5 amended: currentPrice = round(close, 2), and the levels are the
\* rounded current price times the percentage, rounded again.
C5_LevelsFromCurrentPrice ==
    \A k \in Rows :
        LET r == results[k]
            b == BarOf(r)
        IN  /\ IsRounded(b.Close, 10, r.CurrentPrice)
            /\ r.Recommendation = "Sell" =>
                  /\ IsRounded(r.CurrentPrice * 102, 100, r.StopLoss[1])
                  /\ IsRounded(r.CurrentPrice * 96, 100, r.Target[1])
            /\ r.Recommendation = "Buy" =>
                  /\ IsRounded(r.CurrentPrice * 98, 100, r.StopLoss[1])
                  /\ IsRounded(r.CurrentPrice * 104, 100, r.Target[1])

C5_Witness ==
    \E k \in Rows :
        LET r == results[k]
            b == BarOf(r)
        IN  /\ r.Recommendation = "Sell"
            /\ b.Close % 10 # 0
            /\ ~IsRounded(b.Close * 102, 1000, r.StopLoss[1])

\* C6 as stated: a failure on one instrument never ends the run early: a
\* run that has ended has processed every symbol and shown no error.
C6_NoEarlyTermination ==
    pc \in Terminal => (i = Len(NIFTY50_SYMBOLS) /\ "error" \notin shown)

\* C7 as stated: when a run has gone through the whole universe,
\* signals.length + failures.length is the universe length.
C7_SignalsPlusFailures ==
    pc \in {"Completed", "CompletedEmpty"} =>
        Len(results) + Len(failures) = Len(NIFTY50_SYMBOLS)

\* Symbols among the first n whose fetch gave no data.
Skipped(n) == {j \in 1..n : get_stock_data(NIFTY50_SYMBOLS[j]) = None}

\* C7 amended: no failure is recorded; at every point the signals plus the
\* symbols skipped for want of data are the symbols processed so far, and
\* a run that completes its loop has processed the whole universe.
C7_SignalsPlusSkipped ==
    /\ Len(failures) = 0
    /\ Len(results) + Cardinality(Skipped(i)) = i
    /\ pc \in {"Completed", "CompletedEmpty"} => i = Len(NIFTY50_SYMBOLS)

C7_Witness ==
    /\ pc = "Completed"
    /\ Cardinality(Skipped(Len(NIFTY50_SYMBOLS))) = 1
    /\ Len(results) = Len(NIFTY50_SYMBOLS) - 1

\* A symbol fails when its fetch gives no data or its row cannot be analyzed.
Failed(s) == get_stock_data(s) = None \/ Raises(get_stock_data(s)[1])

Universe == {NIFTY50_SYMBOLS[j] : j \in 1..Len(NIFTY50_SYMBOLS)}

\* C8 as stated: a run that has ended shows the 'No valid stock data' warning
\* without the report iff every instrument failed; a run with a success but
\* no Buy/Sell among the successes is Completed with the report and the
\* 'no Buy/Sell' notice; warning and report are never both shown.
C8_TotalFailureDistinct ==
    pc \in Terminal =>
        /\ (pc = "CompletedEmpty" /\ "warning" \in shown /\ "report" \notin shown)
              <=> (\A s \in Universe : Failed(s))
        /\ ((\E s \in Universe : ~Failed(s))
              /\ (\A s \in Universe :
                     ~Failed(s) =>
                        ~IsActionable(analyze_stock(s, get_stock_data(s)[1]))))
              => (pc = "Completed" /\ "report" \in shown /\ "info" \in shown)
        /\ ~("warning" \in shown /\ "report" \in shown)

\* The kind and style of each line of a drawing list.
Lines(d) == [k \in 1..Len(d) |-> <<d[k].text, d[k].linestyle, d[k].price>>]

SLLine(r) == IF r.StopLoss # None THEN <<<<"SL", 2, r.StopLoss[1]>>>> ELSE << >>

TargetLine(r) == IF r.Target # None THEN <<<<"Target", 2, r.Target[1]>>>> ELSE << >>

CurrentLine(r) == <<<<"Current", 0, r.CurrentPrice>>>>

\* C9 as stated: the annotation list has 1 to 3 lines: the current-price line
\* (solid) first, then the stop-loss line (dashed) if present, then the
\* target line (dashed) if present.
C9_CurrentFirst ==
    \A k \in Rows :
        LET r == results[k]
            d == r.TradingViewChart.drawings
        IN  /\ Len(d) \in 1..3
            /\ Lines(d) = CurrentLine(r) \o SLLine(r) \o TargetLine(r)

\* C9 amended: the annotation list has 1 to 3 lines: the stop-loss line
\* (dashed) if present, then the target line (dashed) if present, then the
\* current-price line (solid), always present and always last.
C9_CurrentLast ==
    \A k \in Rows :
        LET r == results[k]
            d == r.TradingViewChart.drawings
        IN  /\ Len(d) \in 1..3
            /\ Lines(d) = SLLine(r) \o TargetLine(r) \o CurrentLine(r)

C9_Witness ==
    \E k \in Rows :
        LET d == results[k].TradingViewChart.drawings
        IN  /\ Len(d) = 3
            /\ d[1].text = "SL" /\ d[2].text = "Target" /\ d[3].text = "Current"

\* C10: at every point the signals are exactly the successfully analyzed
\* symbols among those processed so far, one each, in universe order, and
\* the actionable view is the order-preserving subsequence of exactly the
\* Buy/Sell signals.
C10_OrderPreserved ==
    /\ i \in 0..Len(NIFTY50_SYMBOLS)
    /\ progress_bar = i
    /\ \A k \in Rows : results[k] = analyze_stock(results[k].Symbol, BarOf(results[k]))
    /\ \A k \in Rows : \A l \in Rows :
          k < l => Pos(results[k].Symbol) < Pos(results[l].Symbol)
    /\ {results[k].Symbol : k \in Rows}
          = {NIFTY50_SYMBOLS[j] : j \in {n \in 1..i : ~Failed(NIFTY50_SYMBOLS[n])}}
    /\ pc = "Completed" =>
          /\ \A k \in 1..Len(actionable_df) : \A l \in 1..Len(actionable_df) :
                k < l => Pos(actionable_df[k].Symbol) < Pos(actionable_df[l].Symbol)
          /\ {actionable_df[k] : k \in 1..Len(actionable_df)}
                = {results[k] : k \in {n \in Rows : IsActionable(results[n])}}

C10_Witness ==
    /\ pc = "Completed"
    /\ Len(results) = 2
    /\ Len(actionable_df) = 1
    /\ actionable_df[1] = results[2]
    /\ results[1].Symbol = NIFTY50_SYMBOLS[1]
    /\ results[2].Symbol = NIFTY50_SYMBOLS[3]

====
